---- MODULE Spec2Model ----
\* Red-black tree ordered map (package ordered_map, RedBlackTree[K, V]).
\* The tree is a heap of rbNode records addressed by node identifiers; the
\* operations are translated statement by statement, and every dereference
\* of a nil pointer is a run-time panic recorded in the variable fault.
\* A panic ends the run: no operation starts once fault is set.
EXTENDS Integers, Sequences, FiniteSets, TLC

\* ---------------------------------------------------------------- bounds
\* keys of the structural specification Spec
MaxKey == 5
\* keys and values of the map specification SpecMap
MapKeys == 4
MaxVal == 2
\* keys and insertions of the counting specification SpecCount
CountKeys == 3
MaxIns == 4
\* keys of the reference specification SpecRef
RefKeys == 3
\* keys of the height specification SpecHeight
HeightKeys == 7
\* calls of one sequence value in SpecIter
MaxRuns == 2
\* keys and heap cells of the interleaving specification SpecIterMut
MutKeys == 3
MutCells == 4
\* longest stack of a traversal in SpecIterMut
MaxStack == 3
\* keys and levels of the skip-list specification SpecSkip (the source has
\* maxLevel = 32)
SkipKeys == 3
SkipLevels == 2
\* keys of the traversal specification SpecIter
IterKeys == 3
\* keys and true-returning Delete calls of SpecOmitted
OmitKeys == 4
OmitDeletes == 3
\* keys of the specifications SpecSetOnly and SpecLinks
SetKeys == 6

KeySet == 1..MaxKey
MapKeySet == 1..MapKeys
CountKeySet == 1..CountKeys
RefKeySet == 1..RefKeys
HeightKeySet == 1..HeightKeys
IterKeySet == 1..IterKeys
\* V is any type: a traversal copies values and never looks into them, so
\* two distinct values are enough to tell the positions of a sequence apart
IterVals == {1, 2}
\* the same for the values of SpecRound, which only copies and compares them
RoundVals == {1, 2}
MutKeySet == 1..MutKeys
OmitKeySet == 1..OmitKeys
SetKeySet == 1..SetKeys
SkipKeySet == 1..SkipKeys
ValSet == 1..MaxVal
\* the value stored by the specifications that do not observe values
TreeVals == {1}
\* heap cells: one per key that can be stored at the same time
NodeIds == 1..HeightKeys

\* ------------------------------------------------------------ node model
Nil == 0
red == TRUE
black == FALSE
ZeroV == 0
\* the address of a node that is no longer reachable from root
Detached == -1

\* a heap cell that holds no live rbNode
FreeNode == [key |-> 0, value |-> ZeroV, left |-> Nil, right |-> Nil, parent |-> Nil, color |-> black]

VARIABLES nodes, root, size, fault, last, model, everSet, nIns, nDel

\* snap: what Len() and Pairs() returned before the most recent Set, while
\* that Set stored a new key and only a Delete of that key has followed
VARIABLES snap
\* ref: the *V most recently returned by GetMutable (node: the rbNode whose
\* value field it addresses), the key it was asked for, and whether a Delete
\* of that key has returned true since
VARIABLES ref
\* it: the sequence value returned by KeySeq, ValueSeq or PairSeq and the
\* locals of the traversal it runs; log: what its consumer has been handed
VARIABLES it, log
\* sl: the SkipList value and the nodes it points to; stored: the keys a Set
\* has put in and no Delete has taken out; vis: the most recent call of
\* Range, RangeFrom or RangeBetween and the keys its visitor was called with
VARIABLES sl, stored, vis
\* del: what the most recent Delete of a stored key met: whether the tree
\* satisfied invariants 1 to 5, the colour of the node y it unlinked, whether
\* the replacement x was nil, whether y was the successor of the target z
VARIABLES del
\* loops: the numbers of iterations the loops of fixInsert and of fixDelete
\* made in the most recent call of Set or Delete
VARIABLES loops

tree == <<nodes, root, size, fault>>
iter == <<it, log>>
\* the variables of the specifications added after the first three
skip == <<sl, stored, vis>>
aux == <<snap, ref, iter, skip, del, loops>>
\* the variables a specification leaves alone
calls == <<model, everSet, nIns, nDel>>
exceptSnap == <<calls, ref, iter, skip, del, loops>>
exceptRef == <<calls, snap, iter, skip, del, loops>>
exceptIter == <<calls, snap, ref, skip, del, loops>>
exceptSkip == <<tree, last, calls, snap, ref, iter, del, loops>>
exceptDel == <<calls, snap, ref, iter, skip, loops>>
exceptLoops == <<calls, snap, ref, iter, skip, del>>
vars == <<nodes, root, size, fault, last, model, everSet, nIns, nDel, aux>>

\* the RedBlackTree value t together with the heap it points into
T == [nodes |-> nodes, root |-> root, size |-> size, fault |-> fault]

Fault(t) == [t EXCEPT !.fault = TRUE]
SetF(t, n, f, v) == [t EXCEPT !.nodes[n][f] = v]

\* ------------------------------------------------------------- rotations
\* mutant: rotateLeft without y.left.parent = x
rotateLeftStaleParent(t, x) ==
  IF t.fault THEN t
  ELSE IF x = Nil THEN Fault(t)
  ELSE LET y == t.nodes[x].right IN
    IF y = Nil THEN Fault(t)
    ELSE LET yl == t.nodes[y].left
             xp == t.nodes[x].parent
             s1 == SetF(t, x, "right", yl)
             s3 == SetF(s1, y, "parent", xp)
             s4 == IF xp = Nil THEN [s3 EXCEPT !.root = y]
                   ELSE IF x = s3.nodes[xp].left THEN SetF(s3, xp, "left", y)
                   ELSE SetF(s3, xp, "right", y)
             s5 == SetF(s4, y, "left", x)
         IN SetF(s5, x, "parent", y)

rotateLeft(t, x) ==
  IF t.fault THEN t
  ELSE IF x = Nil THEN Fault(t)
  ELSE LET y == t.nodes[x].right IN
    IF y = Nil THEN Fault(t)
    ELSE LET yl == t.nodes[y].left
             xp == t.nodes[x].parent
             s1 == SetF(t, x, "right", yl)
             s2 == IF yl # Nil THEN SetF(s1, yl, "parent", x) ELSE s1
             s3 == SetF(s2, y, "parent", xp)
             s4 == IF xp = Nil THEN [s3 EXCEPT !.root = y]
                   ELSE IF x = s3.nodes[xp].left THEN SetF(s3, xp, "left", y)
                   ELSE SetF(s3, xp, "right", y)
             s5 == SetF(s4, y, "left", x)
         IN SetF(s5, x, "parent", y)

rotateRight(t, x) ==
  IF t.fault THEN t
  ELSE IF x = Nil THEN Fault(t)
  ELSE LET y == t.nodes[x].left IN
    IF y = Nil THEN Fault(t)
    ELSE LET yr == t.nodes[y].right
             xp == t.nodes[x].parent
             s1 == SetF(t, x, "left", yr)
             s2 == IF yr # Nil THEN SetF(s1, yr, "parent", x) ELSE s1
             s3 == SetF(s2, y, "parent", xp)
             s4 == IF xp = Nil THEN [s3 EXCEPT !.root = y]
                   ELSE IF x = s3.nodes[xp].right THEN SetF(s3, xp, "right", y)
                   ELSE SetF(s3, xp, "left", y)
             s5 == SetF(s4, y, "right", x)
         IN SetF(s5, x, "parent", y)

\* ------------------------------------------------------------ insertion
\* mutant: the outer rotation of fixInsert without the two recolourings
fixInsertOuterNoRecolor(t, n, leftSide) ==
  IF t.fault THEN t
  ELSE LET p == t.nodes[n].parent IN
    IF p = Nil THEN Fault(t)
    ELSE LET g == t.nodes[p].parent
         IN IF g = Nil THEN Fault(t)
            ELSE IF leftSide THEN rotateRight(t, g) ELSE rotateLeft(t, g)

\* the statements after the optional inner rotation of fixInsert:
\*   n.parent.color = black; n.parent.parent.color = red; rotate(n.parent.parent)
fixInsertOuter(t, n, leftSide) ==
  IF t.fault THEN t
  ELSE LET p == t.nodes[n].parent IN
    IF p = Nil THEN Fault(t)
    ELSE LET s1 == SetF(t, p, "color", black)
             g == s1.nodes[p].parent
         IN IF g = Nil THEN Fault(s1)
            ELSE LET s2 == SetF(s1, g, "color", red)
                 IN IF leftSide THEN rotateRight(s2, g) ELSE rotateLeft(s2, g)

\* mutant: the red-uncle case forgets to recolour the parent
recolorRedUncleKeepsParent(t, p, uncle, g) ==
  SetF(SetF(t, uncle, "color", black), g, "color", red)

\* the red-uncle case of fixInsert: parent and uncle black, grandparent red
recolorRedUncle(t, p, uncle, g) ==
  SetF(SetF(SetF(t, p, "color", black), uncle, "color", black), g, "color", red)

\* mutant: fixInsert without its last statement
blackenRootSkipped(t) == t

\* the last statement of fixInsert: t.root.color = black
blackenRoot(t) ==
  IF t.root = Nil THEN Fault(t) ELSE SetF(t, t.root, "color", black)

\* mutant: after the red uncle case the cursor moves to the parent only
fixInsertStepToParent(t, n) ==
  LET p == t.nodes[n].parent
      g == t.nodes[p].parent
  IN IF g = Nil THEN <<Fault(t), n>>
     ELSE IF p = t.nodes[g].left THEN
       LET uncle == t.nodes[g].right IN
       IF uncle # Nil /\ t.nodes[uncle].color = red THEN
         <<recolorRedUncle(t, p, uncle, g), p>>
       ELSE IF n = t.nodes[p].right THEN
         <<fixInsertOuter(rotateLeft(t, p), p, TRUE), p>>
       ELSE <<fixInsertOuter(t, n, TRUE), n>>
     ELSE
       LET uncle == t.nodes[g].left IN
       IF uncle # Nil /\ t.nodes[uncle].color = red THEN
         <<recolorRedUncle(t, p, uncle, g), p>>
       ELSE IF n = t.nodes[p].left THEN
         <<fixInsertOuter(rotateRight(t, p), p, FALSE), p>>
       ELSE <<fixInsertOuter(t, n, FALSE), n>>

\* one iteration of the loop of fixInsert, entered with n below the root and
\* n.parent red: the tree and the new cursor n
fixInsertStep(t, n) ==
  LET p == t.nodes[n].parent
      g == t.nodes[p].parent
  IN IF g = Nil THEN <<Fault(t), n>>
     ELSE IF p = t.nodes[g].left THEN
       LET uncle == t.nodes[g].right IN
       IF uncle # Nil /\ t.nodes[uncle].color = red THEN
         <<recolorRedUncle(t, p, uncle, g), g>>
       ELSE IF n = t.nodes[p].right THEN
         <<fixInsertOuter(rotateLeft(t, p), p, TRUE), p>>
       ELSE <<fixInsertOuter(t, n, TRUE), n>>
     ELSE
       LET uncle == t.nodes[g].left IN
       IF uncle # Nil /\ t.nodes[uncle].color = red THEN
         <<recolorRedUncle(t, p, uncle, g), g>>
       ELSE IF n = t.nodes[p].left THEN
         <<fixInsertOuter(rotateRight(t, p), p, FALSE), p>>
       ELSE <<fixInsertOuter(t, n, FALSE), n>>

\* the loop of fixInsert and its last statement
RECURSIVE fixInsert(_, _)
fixInsert(t, n) ==
  IF t.fault THEN t
  ELSE IF n = t.root THEN blackenRoot(t)
  ELSE LET p == t.nodes[n].parent IN
    IF p = Nil THEN Fault(t)
    ELSE IF t.nodes[p].color # red THEN blackenRoot(t)
    ELSE LET r == fixInsertStep(t, n) IN fixInsert(r[1], r[2])

\* the heap cell handed out by the allocator for a new rbNode
NewNode(t) == CHOOSE n \in NodeIds : t.nodes[n].key = 0 /\ \A m \in NodeIds : t.nodes[m].key = 0 => n <= m

\* descent shared by Get, GetMutable, Set and Delete: the node holding key, or Nil
RECURSIVE findNode(_, _, _)
findNode(t, n, key) ==
  IF n = Nil THEN Nil
  ELSE IF key < t.nodes[n].key THEN findNode(t, t.nodes[n].left, key)
  ELSE IF t.nodes[n].key < key THEN findNode(t, t.nodes[n].right, key)
  ELSE n

\* the last node visited by Set's descent when key is absent (variable parent)
RECURSIVE findParent(_, _, _, _)
findParent(t, n, parent, key) ==
  IF n = Nil THEN parent
  ELSE IF key < t.nodes[n].key THEN findParent(t, t.nodes[n].left, n, key)
  ELSE IF t.nodes[n].key < key THEN findParent(t, t.nodes[n].right, n, key)
  ELSE n

\* mutant: Set on a key that exists keeps the old value
updateValueDropped(t, n, value) == t

\* mutant: Set on a key that exists also counts it as a new key
updateValueCounts(t, n, value) == [SetF(t, n, "value", value) EXCEPT !.size = @ + 1]

\* Set on a key that exists: n.value = value
updateValue(t, n, value) == SetF(t, n, "value", value)

\* mutant: Set forgets t.size++
incSizeDropped(t) == t

\* t.size++
incSize(t) == [t EXCEPT !.size = @ + 1]

\* mutant: Delete forgets t.size--
decSizeDropped(t) == t

\* t.size--
decSize(t) == [t EXCEPT !.size = @ - 1]

\* Set on a tree that is not empty and does not store key, up to the call
\* of fixInsert: the tree with the red node linked in and counted, and that
\* node
insertNode(t, key, value) ==
  LET parent == findParent(t, t.root, Nil, key)
      ins == NewNode(t)
      s1 == [t EXCEPT !.nodes[ins] = [key |-> key, value |-> value, left |-> Nil,
                                      right |-> Nil, parent |-> parent, color |-> red]]
      s2 == IF key < s1.nodes[parent].key THEN SetF(s1, parent, "left", ins)
            ELSE SetF(s1, parent, "right", ins)
  IN <<incSize(s2), ins>>

SetT(t, key, value) ==
  IF t.root = Nil THEN
    LET ins == NewNode(t) IN
    incSize([t EXCEPT !.nodes[ins] = [key |-> key, value |-> value, left |-> Nil, right |-> Nil,
                                      parent |-> Nil, color |-> black],
                      !.root = ins])
  ELSE LET hit == findNode(t, t.root, key) IN
    IF hit # Nil THEN updateValue(t, hit, value)
    ELSE LET r == insertNode(t, key, value) IN fixInsert(r[1], r[2])

\* -------------------------------------------------------------- lookups
Get(t, key) ==
  LET n == findNode(t, t.root, key) IN
  IF n = Nil THEN <<ZeroV, FALSE>> ELSE <<t.nodes[n].value, TRUE>>

Has(t, key) == Get(t, key)[2]

\* mutant: the address returned is that of the root's value
GetMutableOfRoot(t, key) ==
  LET n == findNode(t, t.root, key) IN IF n = Nil THEN <<Nil, FALSE>> ELSE <<t.root, TRUE>>

\* GetMutable: &n.value, named by n, and the found flag
GetMutable(t, key) ==
  LET n == findNode(t, t.root, key) IN <<n, n # Nil>>

\* *ptr = value for a ptr returned by GetMutable; a detached node is not part
\* of the tree
store(t, ptr, value) == IF ptr = Detached THEN t ELSE SetF(t, ptr, "value", value)

LenT(t) == t.size

\* --------------------------------------------------------------- deletion
\* fixDelete: x = t.root, which ends the loop
cursorAtRoot(t) == <<t, t.root>>

\* fixDelete, x == x.parent.left, a red nephew exists: the statements from
\* w.color = x.parent.color to x = t.root, w read again as x.parent.right
fixDeleteLeftFar(t, x) ==
  IF t.fault THEN <<t, x>>
  ELSE LET xp == t.nodes[x].parent
           w == t.nodes[xp].right
       IN IF w = Nil THEN <<Fault(t), x>>
          ELSE LET wr == t.nodes[w].right
                   s1 == SetF(SetF(t, w, "color", t.nodes[xp].color), xp, "color", black)
                   s2 == IF wr # Nil THEN SetF(s1, wr, "color", black) ELSE s1
               IN cursorAtRoot(rotateLeft(s2, xp))

\* fixDelete, x == x.parent.left: the statements after the red-sibling case,
\* w being x.parent.right
fixDeleteLeftRest(t, x) ==
  IF t.fault THEN <<t, x>>
  ELSE LET w == t.nodes[t.nodes[x].parent].right IN
    IF w = Nil THEN <<Fault(t), x>>
    ELSE LET wl == t.nodes[w].left
             wr == t.nodes[w].right
         IN
      IF (wl = Nil \/ t.nodes[wl].color = black) /\ (wr = Nil \/ t.nodes[wr].color = black) THEN
        <<SetF(t, w, "color", red), t.nodes[x].parent>>
      ELSE IF wr = Nil \/ t.nodes[wr].color = black THEN
        fixDeleteLeftFar(rotateRight(SetF(IF wl # Nil THEN SetF(t, wl, "color", black) ELSE t,
                                          w, "color", red), w), x)
      ELSE fixDeleteLeftFar(t, x)

\* fixDelete, x == x.parent.right, a red nephew exists: the statements from
\* w.color = x.parent.color to x = t.root, w read again as x.parent.left
fixDeleteRightFar(t, x) ==
  IF t.fault THEN <<t, x>>
  ELSE LET xp == t.nodes[x].parent
           w == t.nodes[xp].left
       IN IF w = Nil THEN <<Fault(t), x>>
          ELSE LET wl == t.nodes[w].left
                   s1 == SetF(SetF(t, w, "color", t.nodes[xp].color), xp, "color", black)
                   s2 == IF wl # Nil THEN SetF(s1, wl, "color", black) ELSE s1
               IN cursorAtRoot(rotateRight(s2, xp))

\* fixDelete, x == x.parent.right: the statements after the red-sibling case,
\* w being x.parent.left
fixDeleteRightRest(t, x) ==
  IF t.fault THEN <<t, x>>
  ELSE LET w == t.nodes[t.nodes[x].parent].left IN
    IF w = Nil THEN <<Fault(t), x>>
    ELSE LET wl == t.nodes[w].left
             wr == t.nodes[w].right
         IN
      IF (wr = Nil \/ t.nodes[wr].color = black) /\ (wl = Nil \/ t.nodes[wl].color = black) THEN
        <<SetF(t, w, "color", red), t.nodes[x].parent>>
      ELSE IF wl = Nil \/ t.nodes[wl].color = black THEN
        fixDeleteRightFar(rotateLeft(SetF(IF wr # Nil THEN SetF(t, wr, "color", black) ELSE t,
                                          w, "color", red), w), x)
      ELSE fixDeleteRightFar(t, x)

\* one iteration of the loop of fixDelete: the tree and the new cursor x
fixDeleteStep(t, x) ==
  LET xp == t.nodes[x].parent IN
  IF xp = Nil THEN <<Fault(t), x>>
  ELSE IF x = t.nodes[xp].left THEN
    LET w == t.nodes[xp].right IN
    IF w = Nil THEN <<Fault(t), x>>
    ELSE IF t.nodes[w].color = red THEN
      fixDeleteLeftRest(rotateLeft(SetF(SetF(t, w, "color", black), xp, "color", red), xp), x)
    ELSE fixDeleteLeftRest(t, x)
  ELSE
    LET w == t.nodes[xp].left IN
    IF w = Nil THEN <<Fault(t), x>>
    ELSE IF t.nodes[w].color = red THEN
      fixDeleteRightRest(rotateRight(SetF(SetF(t, w, "color", black), xp, "color", red), xp), x)
    ELSE fixDeleteRightRest(t, x)

\* the loop of fixDelete and its last statement, r = <<tree, x>>
RECURSIVE fixDeleteLoop(_)
fixDeleteLoop(r) ==
  IF r[1].fault THEN r[1]
  ELSE IF r[2] = Nil THEN Fault(r[1])
  ELSE IF r[2] # r[1].root /\ r[1].nodes[r[2]].color = black THEN
    fixDeleteLoop(fixDeleteStep(r[1], r[2]))
  ELSE SetF(r[1], r[2], "color", black)

fixDelete(t, x) == fixDeleteLoop(<<t, x>>)

\* mutant: the successor search stops at z.right
leftmostNoDescent(t, y) == y

\* successor search of deleteNode: leftmost node below y
RECURSIVE leftmost(_, _)
leftmost(t, y) == IF t.nodes[y].left # Nil THEN leftmost(t, t.nodes[y].left) ELSE y

\* the node deleteNode unlinks for target z
removedNode(t, z) ==
  IF t.nodes[z].left = Nil \/ t.nodes[z].right = Nil THEN z ELSE leftmost(t, t.nodes[z].right)

\* mutant: only y.left is looked at for the replacement
replacementLeftOnly(t, y) == t.nodes[y].left

\* the replacement x of deleteNode: y's only child or Nil
replacement(t, y) == IF t.nodes[y].left # Nil THEN t.nodes[y].left ELSE t.nodes[y].right

\* mutant: deleteNode never calls fixDelete
needsFixNever(ycolor, x) == FALSE

\* mutant: the colour test of deleteNode inverted
needsFixOnRed(ycolor, x) == ycolor = red

\* fixDelete runs only for a black removed node with a child present
needsFix(ycolor, x) == ycolor = black /\ x # Nil

\* mutant: the successor's key is copied into z, its value is not
deleteNodeKeepsValue(t, z) ==
  LET y == removedNode(t, z)
      x == replacement(t, y)
      yp == t.nodes[y].parent
      s1 == IF x # Nil THEN SetF(t, x, "parent", yp) ELSE t
      s2 == IF yp = Nil THEN [s1 EXCEPT !.root = x]
            ELSE IF y = s1.nodes[yp].left THEN SetF(s1, yp, "left", x)
            ELSE SetF(s1, yp, "right", x)
      s3 == IF y # z THEN SetF(s2, z, "key", s2.nodes[y].key)
            ELSE s2
      s4 == IF needsFix(s3.nodes[y].color, x) THEN fixDelete(s3, x) ELSE s3
  IN s4

\* deleteNode up to its last if statement: y is unlinked, x linked in its
\* place, y's key and value copied into z when y is not z
unlinkAndCopy(t, z) ==
  LET y == removedNode(t, z)
      x == replacement(t, y)
      yp == t.nodes[y].parent
      s1 == IF x # Nil THEN SetF(t, x, "parent", yp) ELSE t
      s2 == IF yp = Nil THEN [s1 EXCEPT !.root = x]
            ELSE IF y = s1.nodes[yp].left THEN SetF(s1, yp, "left", x)
            ELSE SetF(s1, yp, "right", x)
  IN IF y # z THEN SetF(SetF(s2, z, "key", s2.nodes[y].key), z, "value", s2.nodes[y].value)
     ELSE s2

deleteNode(t, z) ==
  LET y == removedNode(t, z)
      x == replacement(t, y)
      s3 == unlinkAndCopy(t, z)
  IN IF needsFix(s3.nodes[y].color, x) THEN fixDelete(s3, x) ELSE s3

\* Delete after deleteNode(t, n) returned tree t: t.size--; return true
deleteFound(t) == IF t.fault THEN <<t, FALSE>> ELSE <<decSize(t), TRUE>>

\* mutant: t.size-- placed after the loop, executed when the key is absent too
DeleteAlwaysDecrements(t, key) ==
  LET n == findNode(t, t.root, key) IN
  IF n = Nil THEN <<decSize(t), FALSE>> ELSE deleteFound(deleteNode(t, n))

\* Delete: the tree afterwards and the returned flag
Delete(t, key) ==
  LET n == findNode(t, t.root, key) IN
  IF n = Nil THEN <<t, FALSE>> ELSE deleteFound(deleteNode(t, n))

\* deleteNode as container/ordered_map/red_black_tree.go has it: the body is
\* two comments ("implementation omitted for brevity") and no statement
deleteNodeOmitted(t, z) == t

\* Delete of container/ordered_map/red_black_tree.go: the same descent, then
\* deleteNode(t, n); t.size--; return true
DeleteOmitted(t, key) ==
  LET n == findNode(t, t.root, key) IN
  IF n = Nil THEN <<t, FALSE>> ELSE <<decSize(deleteNodeOmitted(t, n)), TRUE>>

\* ------------------------------------------------------ ordered access
RECURSIVE inOrderKeys(_, _)
inOrderKeys(t, n) ==
  IF n = Nil THEN <<>>
  ELSE inOrderKeys(t, t.nodes[n].left) \o <<t.nodes[n].key>> \o inOrderKeys(t, t.nodes[n].right)

Keys(t) == inOrderKeys(t, t.root)

\* mutant: the values collected right subtree first
RECURSIVE inOrderValuesRightFirst(_, _)
inOrderValuesRightFirst(t, n) ==
  IF n = Nil THEN <<>>
  ELSE inOrderValuesRightFirst(t, t.nodes[n].right) \o <<t.nodes[n].value>>
         \o inOrderValuesRightFirst(t, t.nodes[n].left)

RECURSIVE inOrderValues(_, _)
inOrderValues(t, n) ==
  IF n = Nil THEN <<>>
  ELSE inOrderValues(t, t.nodes[n].left) \o <<t.nodes[n].value>> \o inOrderValues(t, t.nodes[n].right)

Values(t) == inOrderValues(t, t.root)

\* a pair.Pair{First, Second} is the tuple <<key, value>>
RECURSIVE inOrderPairs(_, _)
inOrderPairs(t, n) ==
  IF n = Nil THEN <<>>
  ELSE inOrderPairs(t, t.nodes[n].left) \o <<<<t.nodes[n].key, t.nodes[n].value>>>>
         \o inOrderPairs(t, t.nodes[n].right)

Pairs(t) == inOrderPairs(t, t.root)

\* ------------------------------------------------------- lazy sequences
\* A sequence value is the closure KeySeq, ValueSeq or PairSeq returns: it
\* holds the tree pointer and nothing else.  kind tells which of the three
\* built it.  phase is "none" before any sequence value exists, "made" while
\* the closure is not running, "yield" while it is suspended in a call of
\* yield, "done" after the loop ran out, "stopped" after yield returned
\* false, "panic" after a nil dereference or a pop from the empty stack.
\* stack and current are the locals of inOrder*Iterative; they exist only
\* while the closure runs.
SeqKinds == {"key", "value", "pair"}

NoSeq == [kind |-> "key", phase |-> "none", stack |-> <<>>, current |-> Nil]

\* KeySeq(), ValueSeq(), PairSeq(): the closure, nothing traversed yet
makeSeq(kind) == [kind |-> kind, phase |-> "made", stack |-> <<>>, current |-> Nil]

\* the argument of yield at node n: n.key, n.value or both
yielded(t, n, kind) ==
  IF kind = "key" THEN t.nodes[n].key
  ELSE IF kind = "value" THEN t.nodes[n].value
  ELSE <<t.nodes[n].key, t.nodes[n].value>>

\* mutant: the inner loop stops one node early
RECURSIVE goLeftmostButOne(_, _, _)
goLeftmostButOne(t, stack, current) ==
  IF current = Nil \/ t.nodes[current].left = Nil THEN stack
  ELSE goLeftmostButOne(t, Append(stack, current), t.nodes[current].left)

\* for current != nil { stack = append(stack, current); current = current.left }
RECURSIVE goLeftmost(_, _, _)
goLeftmost(t, stack, current) ==
  IF current = Nil THEN stack
  ELSE goLeftmost(t, Append(stack, current), t.nodes[current].left)

\* mutant: the outer loop tests current alone, not the stack
iterAdvanceStackIgnored(t, s) ==
  IF s.current = Nil
  THEN [s EXCEPT !.phase = "done", !.stack = <<>>]
  ELSE LET st == goLeftmost(t, s.stack, s.current) IN
       [s EXCEPT !.phase = "yield",
                 !.current = st[Len(st)],
                 !.stack = SubSeq(st, 1, Len(st) - 1)]

\* the outer loop from its test up to the next call of yield
iterAdvance(t, s) ==
  IF Len(s.stack) = 0 /\ s.current = Nil
  THEN [s EXCEPT !.phase = "done"]
  ELSE LET st == goLeftmost(t, s.stack, s.current) IN
       IF Len(st) = 0 THEN [s EXCEPT !.phase = "panic"]
       ELSE [s EXCEPT !.phase = "yield",
                      !.current = st[Len(st)],
                      !.stack = SubSeq(st, 1, Len(st) - 1)]

\* the closure is called: inOrder*Iterative(t.root, yield) up to the first yield
iterStart(t, s) ==
  IF t.root = Nil THEN [s EXCEPT !.phase = "done", !.stack = <<>>, !.current = Nil]
  ELSE iterAdvance(t, [s EXCEPT !.stack = <<>>, !.current = t.root])

\* mutant: a false from yield is ignored
iterReturnIgnored(s) == s

\* yield returned false: return; the locals are gone
iterReturn(s) == [s EXCEPT !.phase = "stopped", !.stack = <<>>, !.current = Nil]

\* yield returned true: current = current.right, then the loop again
iterResume(t, s) ==
  IF s.current = Nil THEN [s EXCEPT !.phase = "panic"]
  ELSE iterAdvance(t, [s EXCEPT !.current = t.nodes[s.current].right])

\* ------------------------------------------------------------ skip list
\* Package skip_list, SkipList[K, V].  Nodes live in cells 1..SkipKeys, the
\* header sentinel in cell Hdr; forward[i] of the source is forward[i + 1]
\* here.  A skip list is [cells, level, length, dir]: dir = 1 stands for the
\* comparator cmp.Compare, dir = -1 for the reversed one.
maxLevel == SkipLevels
SkipIds == 1..SkipKeys
Hdr == SkipKeys + 1

FreeCell == [key |-> 0, value |-> ZeroV, forward |-> <<>>]

\* NewSkipList(compare)
NewSkipList(dir) ==
  [cells |-> [n \in SkipIds \cup {Hdr} |->
                IF n = Hdr THEN [key |-> 0, value |-> ZeroV, forward |-> [i \in 1..maxLevel |-> Nil]]
                ELSE FreeCell],
   level |-> 0, length |-> 0, dir |-> dir]

\* sl.compare(a, b)
compare(l, a, b) == IF a = b THEN 0 ELSE IF a < b THEN -l.dir ELSE l.dir

\* n.forward[i]
forward(l, n, i) == l.cells[n].forward[i + 1]

\* the values randomLevel can return
randomLevel == 0..(maxLevel - 1)

\* for current.forward[i] != nil && compare(current.forward[i].key, key) < 0
RECURSIVE advance(_, _, _, _)
advance(l, current, i, key) ==
  LET nx == forward(l, current, i) IN
  IF nx # Nil /\ compare(l, l.cells[nx].key, key) < 0 THEN advance(l, nx, i, key)
  ELSE current

\* the loop of search from level i down: the update array, filled in up to
\* i, and the node the search ends on
RECURSIVE searchFrom(_, _, _, _, _)
searchFrom(l, current, i, key, update) ==
  IF i < 0 THEN <<update, current>>
  ELSE LET c == advance(l, current, i, key) IN
       searchFrom(l, c, i - 1, key, [update EXCEPT ![i] = c])

\* search: the update array and current = current.forward[0]
search(l, key) ==
  LET r == searchFrom(l, Hdr, l.level, key, [i \in 0..(maxLevel - 1) |-> Nil])
  IN <<r[1], forward(l, r[2], 0)>>

\* current != nil && compare(current.key, key) == 0
matches(l, current, key) == current # Nil /\ compare(l, l.cells[current].key, key) = 0

slGet(l, key) ==
  LET current == search(l, key)[2] IN
  IF matches(l, current, key) THEN <<l.cells[current].value, TRUE>> ELSE <<ZeroV, FALSE>>

\* the cell of a new node
newCell(l) == CHOOSE n \in SkipIds : l.cells[n].key = 0 /\ \A m \in SkipIds : l.cells[m].key = 0 => n <= m

\* for i := 0; i <= newLevel; i++: the new node is linked in at level i
RECURSIVE linkFrom(_, _, _, _, _)
linkFrom(l, update, n, i, newLevel) ==
  IF i > newLevel THEN l
  ELSE LET u == update[i]
           l1 == [l EXCEPT !.cells[n].forward[i + 1] = forward(l, u, i)]
           l2 == [l1 EXCEPT !.cells[u].forward[i + 1] = n]
       IN linkFrom(l2, update, n, i + 1, newLevel)

\* Set, with newLevel the value randomLevel returns when it is called
slSet(l, key, value, newLevel) ==
  LET r == search(l, key)
      current == r[2]
  IN IF matches(l, current, key) THEN [l EXCEPT !.cells[current].value = value]
     ELSE LET update == [i \in 0..(maxLevel - 1) |->
                           IF newLevel > l.level /\ i > l.level /\ i <= newLevel THEN Hdr
                           ELSE r[1][i]]
              l1 == IF newLevel > l.level THEN [l EXCEPT !.level = newLevel] ELSE l
              n == newCell(l)
              l2 == [l1 EXCEPT !.cells[n] = [key |-> key, value |-> value,
                                             forward |-> [i \in 1..(newLevel + 1) |-> Nil]]]
              l3 == linkFrom(l2, update, n, 0, newLevel)
          IN [l3 EXCEPT !.length = @ + 1]

\* for i := 0; i <= sl.level; i++: current is unlinked at level i, until a
\* level where update[i] does not point to it
RECURSIVE unlinkFrom(_, _, _, _)
unlinkFrom(l, update, current, i) ==
  IF i > l.level THEN l
  ELSE IF forward(l, update[i], i) # current THEN l
  ELSE unlinkFrom([l EXCEPT !.cells[update[i]].forward[i + 1] = forward(l, current, i)],
                  update, current, i + 1)

\* for sl.level > 0 && sl.header.forward[sl.level] == nil { sl.level-- }
RECURSIVE lowerLevel(_)
lowerLevel(l) ==
  IF l.level > 0 /\ forward(l, Hdr, l.level) = Nil THEN lowerLevel([l EXCEPT !.level = @ - 1])
  ELSE l

\* Delete: the list afterwards and the returned flag
slDelete(l, key) ==
  LET r == search(l, key)
      current == r[2]
  IN IF ~matches(l, current, key) THEN <<l, FALSE>>
     ELSE <<[lowerLevel(unlinkFrom(l, r[1], current, 0)) EXCEPT !.length = @ - 1], TRUE>>

\* the visitor of a range call: stop = 0 returns true every time, stop = i
\* returns true i - 1 times and false on call number i (nth: the number of the call)
fnReturns(stop, nth) == stop # nth

\* mutant: the result of the visitor is tested after the next node is visited
RECURSIVE visitLate(_, _, _, _, _, _)
visitLate(l, current, bounded, end, stop, out) ==
  IF current = Nil THEN out
  ELSE IF bounded /\ compare(l, l.cells[current].key, end) > 0 THEN out
  ELSE LET o == Append(out, l.cells[current].key) IN
       IF Len(out) > 0 /\ ~fnReturns(stop, Len(out)) THEN o
       ELSE visitLate(l, forward(l, current, 0), bounded, end, stop, o)

\* the visiting loop of Range, RangeFrom and RangeBetween from node current;
\* bounded tells whether the loop tests compare(current.key, end) <= 0;
\* out collects the keys fn is called with
RECURSIVE visit(_, _, _, _, _, _)
visit(l, current, bounded, end, stop, out) ==
  IF current = Nil THEN out
  ELSE IF bounded /\ compare(l, l.cells[current].key, end) > 0 THEN out
  ELSE LET o == Append(out, l.cells[current].key) IN
       IF ~fnReturns(stop, Len(o)) THEN o
       ELSE visit(l, forward(l, current, 0), bounded, end, stop, o)

\* the first node with key >= start: the descent without an update array
RECURSIVE seekFrom(_, _, _, _)
seekFrom(l, current, i, start) ==
  IF i < 0 THEN forward(l, current, 0)
  ELSE seekFrom(l, advance(l, current, i, start), i - 1, start)

slRange(l, stop) == visit(l, forward(l, Hdr, 0), FALSE, 0, stop, <<>>)

slRangeFrom(l, start, stop) == visit(l, seekFrom(l, Hdr, l.level, start), FALSE, 0, stop, <<>>)

\* mutant: the bounds are used as given
slRangeBetweenNoSwap(l, start, end, stop) ==
  visit(l, seekFrom(l, Hdr, l.level, start), TRUE, end, stop, <<>>)

slRangeBetween(l, start, end, stop) ==
  LET swap == compare(l, start, end) > 0
      actualStart == IF swap THEN end ELSE start
      actualEnd == IF swap THEN start ELSE end
  IN visit(l, seekFrom(l, Hdr, l.level, actualStart), TRUE, actualEnd, stop, <<>>)

\* the nodes of the list along level 0
RECURSIVE chain(_, _)
chain(l, n) == IF n = Nil THEN <<>> ELSE <<n>> \o chain(l, forward(l, n, 0))

\* the cells renamed to their position along level 0, unlinked cells reclaimed
canonSkip(l) ==
  LET ord == chain(l, forward(l, Hdr, 0))
      new(n) == IF n = Nil \/ n = Hdr THEN n ELSE CHOOSE i \in DOMAIN ord : ord[i] = n
      cell(c) == [c EXCEPT !.forward = [i \in DOMAIN c.forward |-> new(c.forward[i])]]
  IN [l EXCEPT !.cells = [n \in SkipIds \cup {Hdr} |->
                            IF n = Hdr THEN cell(l.cells[Hdr])
                            ELSE IF n <= Len(ord) THEN cell(l.cells[ord[n]])
                            ELSE FreeCell]]

\* ------------------------------------------------------- heap addressing
\* Go pointers carry neither order nor arithmetic: the program observes a
\* node's address only through equality.  The heap is therefore kept up to a
\* renaming of its cells: after each operation the cells reachable from root
\* are renamed to their in-order rank, and the cells no longer reachable (the
\* node unlinked by deleteNode) are reclaimed by the garbage collector.
RECURSIVE inOrderNodes(_, _)
inOrderNodes(t, n) ==
  IF n = Nil THEN <<>>
  ELSE inOrderNodes(t, t.nodes[n].left) \o <<n>> \o inOrderNodes(t, t.nodes[n].right)

RECURSIVE sortedSeq(_)
sortedSeq(S) ==
  IF S = {} THEN <<>>
  ELSE LET m == CHOOSE x \in S : \A y \in S : x <= y IN <<m>> \o sortedSeq(S \ {m})

Canon(t) ==
  LET ord == inOrderNodes(t, t.root)
      rest == NodeIds \ {ord[i] : i \in DOMAIN ord}
      full == ord \o sortedSeq(rest)
      new(n) == IF n = Nil THEN Nil ELSE CHOOSE i \in DOMAIN full : full[i] = n
      cell(c) == [c EXCEPT !.left = new(@), !.right = new(@), !.parent = new(@)]
  IN [t EXCEPT !.nodes = [i \in NodeIds |-> IF i <= Len(ord) THEN cell(t.nodes[full[i]])
                                             ELSE FreeNode],
               !.root = new(@)]

\* While a traversal is suspended its stack and current keep nodes alive,
\* and through their left, right and parent fields every node those point
\* to.  held lists, after the nodes `acc` already listed, the nodes reachable
\* from the pointers `todo`, in the order they are met.
RECURSIVE held(_, _, _)
held(t, todo, acc) ==
  IF todo = <<>> THEN acc
  ELSE LET n == Head(todo) IN
       IF n = Nil \/ \E i \in DOMAIN acc : acc[i] = n THEN held(t, Tail(todo), acc)
       ELSE held(t, <<t.nodes[n].left, t.nodes[n].right, t.nodes[n].parent>> \o Tail(todo),
                 Append(acc, n))

\* Canon for a tree with a suspended traversal s: the cells reachable from
\* root are renamed to their in-order rank, the other cells s keeps alive
\* follow them, the rest is reclaimed; s's pointers are renamed alike.
CanonHeld(t, s) ==
  LET full == held(t, Append(s.stack, s.current), inOrderNodes(t, t.root))
      new(n) == IF n = Nil THEN Nil ELSE CHOOSE i \in DOMAIN full : full[i] = n
      cell(c) == [c EXCEPT !.left = new(@), !.right = new(@), !.parent = new(@)]
  IN <<[t EXCEPT !.nodes = [i \in NodeIds |-> IF i <= Len(full) THEN cell(t.nodes[full[i]])
                                               ELSE FreeNode],
                 !.root = new(@)],
       [s EXCEPT !.stack = [i \in DOMAIN s.stack |-> new(s.stack[i])],
                 !.current = new(@)]>>

\* the address of node n of tree t after Canon(t)
canonId(t, n) ==
  LET ord == inOrderNodes(t, t.root) IN
  IF n = Nil \/ n = Detached THEN n
  ELSE IF \E i \in DOMAIN ord : ord[i] = n THEN CHOOSE i \in DOMAIN ord : ord[i] = n
  ELSE Detached

\* ------------------------------------------------- structural predicates
\* the number of nodes on the longest path from n down to a leaf
RECURSIVE height(_, _)
height(t, n) ==
  IF n = Nil THEN 0
  ELSE LET l == height(t, t.nodes[n].left)
           r == height(t, t.nodes[n].right)
       IN 1 + IF l >= r THEN l ELSE r

RECURSIVE pow2(_)
pow2(h) == IF h = 0 THEN 1 ELSE 2 * pow2(h - 1)

\* the numbers of black nodes met on the paths from n down to an absent child
RECURSIVE blackCounts(_, _)
blackCounts(t, n) ==
  IF n = Nil THEN {0}
  ELSE {c + (IF t.nodes[n].color = black THEN 1 ELSE 0) :
          c \in blackCounts(t, t.nodes[n].left) \cup blackCounts(t, t.nodes[n].right)}

\* the nodes reachable from root
Reachable(t) == LET ord == inOrderNodes(t, t.root) IN {ord[i] : i \in DOMAIN ord}

\* the keys in the subtree of n
RECURSIVE subtreeKeys(_, _)
subtreeKeys(t, n) ==
  IF n = Nil THEN {}
  ELSE subtreeKeys(t, t.nodes[n].left) \cup {t.nodes[n].key} \cup subtreeKeys(t, t.nodes[n].right)

BSTOrder(t) ==
  \A n \in Reachable(t) :
    /\ \A k \in subtreeKeys(t, t.nodes[n].left) : k < t.nodes[n].key
    /\ \A k \in subtreeKeys(t, t.nodes[n].right) : t.nodes[n].key < k

StrictlyAscending(q) == \A i \in 1..(Len(q) - 1) : q[i] < q[i + 1]

\* the keys the tree stores, read off the in-order traversal
Stored(t) == LET ks == Keys(t) IN {ks[i] : i \in DOMAIN ks}

NoRedRed(t) ==
  \A n \in Reachable(t) :
    t.nodes[n].color = red =>
      /\ t.nodes[n].left # Nil => t.nodes[t.nodes[n].left].color = black
      /\ t.nodes[n].right # Nil => t.nodes[t.nodes[n].right].color = black

\* the nodes whose left or right field references n
owners(t, n) == {m \in Reachable(t) : t.nodes[m].left = n \/ t.nodes[m].right = n}

\* the number of parent links from n up to the root
RECURSIVE depth(_, _)
depth(t, n) == IF t.nodes[n].parent = Nil THEN 0 ELSE 1 + depth(t, t.nodes[n].parent)

\* the test of the loop of fixInsert at r = <<tree, n>>, a panic ending the loop
insertGoesOn(r) ==
  /\ ~r[1].fault /\ r[2] # r[1].root
  /\ r[1].nodes[r[2]].parent # Nil
  /\ r[1].nodes[r[1].nodes[r[2]].parent].color = red

\* the test of the loop of fixDelete at r = <<tree, x>>, a panic ending the loop
deleteGoesOn(r) ==
  /\ ~r[1].fault /\ r[2] # Nil /\ r[2] # r[1].root
  /\ r[1].nodes[r[2]].color = black

\* the iterations the loop of fixInsert makes from r
RECURSIVE insertIters(_)
insertIters(r) ==
  IF insertGoesOn(r) THEN 1 + insertIters(fixInsertStep(r[1], r[2])) ELSE 0

\* the iterations the loop of fixDelete makes from r
RECURSIVE deleteIters(_)
deleteIters(r) ==
  IF deleteGoesOn(r) THEN 1 + deleteIters(fixDeleteStep(r[1], r[2])) ELSE 0

\* every iteration of fixInsert from r after which the loop goes on has moved
\* the cursor closer to the root
RECURSIVE insertClimbs(_)
insertClimbs(r) ==
  insertGoesOn(r) =>
    \E r2 \in {fixInsertStep(r[1], r[2])} :
      /\ insertGoesOn(r2) => depth(r2[1], r2[2]) < depth(r[1], r[2])
      /\ insertClimbs(r2)

\* the same for fixDelete
RECURSIVE deleteClimbs(_)
deleteClimbs(r) ==
  deleteGoesOn(r) =>
    \E r2 \in {fixDeleteStep(r[1], r[2])} :
      /\ deleteGoesOn(r2) => depth(r2[1], r2[2]) < depth(r[1], r[2])
      /\ deleteClimbs(r2)

\* fixInsert is called by Set(k) on t: t is not empty and does not store k
insertFixed(t, k) == t.root # Nil /\ findNode(t, t.root, k) = Nil

\* invariants 1 to 5 of the data model: BST order, no key twice, black root,
\* no red node with a red child, one black count on all paths
Inv1to5(t) ==
  /\ BSTOrder(t)
  /\ StrictlyAscending(Keys(t))
  /\ t.root = Nil \/ t.nodes[t.root].color = black
  /\ NoRedRed(t)
  /\ Cardinality(blackCounts(t, t.root)) = 1

\* the node Delete(k) unlinks from t, k being stored
unlinked(t, k) == removedNode(t, findNode(t, t.root, k))

\* fixDelete is called by Delete(k) on t, which stores k
deleteFixed(t, k) ==
  needsFix(t.nodes[unlinked(t, k)].color, replacement(t, unlinked(t, k)))

\* the tree and the cursor fixDelete starts from in Delete(k) on t
deleteFixStart(t, k) ==
  <<unlinkAndCopy(t, findNode(t, t.root, k)), replacement(t, unlinked(t, k))>>

\* ---------------------------------------------------------- state machine
NoOp == [op |-> "New", key |-> 0, ret |-> FALSE]
NoSnap == [key |-> 0, len |-> 0, pairs |-> <<>>, done |-> FALSE]
NoRef == [node |-> Nil, key |-> 0, gone |-> FALSE]
\* the consumer's record of one traversal: seen holds the arguments of the
\* calls of yield, stopAt the number of the call it answered with false
\* runs counts the calls of the sequence value
NoVis == [fn |-> "none", a |-> 0, b |-> 0, stop |-> 0, out |-> <<>>]
\* mutated tells that a Set or Delete has returned since the sequence value
\* was created
NoLog == [seen |-> <<>>, stopAt |-> 0, runs |-> 0, mutated |-> FALSE]
NoDel == [valid |-> FALSE, ycolor |-> black, xnil |-> TRUE, two |-> FALSE]
NoLoops == [ins |-> 0, del |-> 0]

Init ==
  /\ nodes = [n \in NodeIds |-> FreeNode]
  /\ root = Nil
  /\ size = 0
  /\ fault = FALSE
  /\ last = NoOp
  /\ model = [k \in KeySet |-> 0]
  /\ everSet = {}
  /\ nIns = 0
  /\ nDel = 0
  /\ snap = NoSnap
  /\ ref = NoRef
  /\ it = NoSeq
  /\ log = NoLog
  /\ sl = NewSkipList(1)
  /\ stored = {}
  /\ vis = NoVis
  /\ del = NoDel
  /\ loops = NoLoops

\* a call t.Set(k, v): the tree afterwards; last records the call
SetStep(k, v) ==
  /\ ~fault
  /\ \E r \in {Canon(SetT(T, k, v))} :
       /\ nodes' = r.nodes
       /\ root' = r.root
       /\ size' = r.size
       /\ fault' = r.fault
  /\ last' = [op |-> "Set", key |-> k, ret |-> FALSE]

\* a call t.Delete(k): the tree afterwards; last records the call and its result
DeleteStep(k) ==
  /\ ~fault
  /\ \E r \in {Delete(T, k)} : \E c \in {Canon(r[1])} :
        /\ nodes' = c.nodes
        /\ root' = c.root
        /\ size' = c.size
        /\ fault' = c.fault
        /\ last' = [op |-> "Delete", key |-> k, ret |-> r[2]]

\* Spec: the tree alone, all keys of KeySet
SetOp(k) == \E v \in TreeVals : SetStep(k, v) /\ UNCHANGED <<model, everSet, nIns, nDel, aux>>

DeleteOp(k) == DeleteStep(k) /\ UNCHANGED <<model, everSet, nIns, nDel, aux>>

Next ==
  \/ \E k \in KeySet : SetOp(k)
  \/ \E k \in KeySet : DeleteOp(k)

Spec == Init /\ [][Next]_vars

\* SpecMap: the tree next to the abstract map it implements.  model[k] is the
\* value of the most recent Set(k, _) not followed by a Delete(k) that
\* returned true, 0 when there is none.
MapSet(k, v) ==
  /\ SetStep(k, v)
  /\ model' = IF fault' THEN model ELSE [model EXCEPT ![k] = v]
  /\ UNCHANGED <<everSet, nIns, nDel, aux>>

MapDelete(k) ==
  /\ DeleteStep(k)
  /\ model' = IF last'.ret THEN [model EXCEPT ![k] = 0] ELSE model
  /\ UNCHANGED <<everSet, nIns, nDel, aux>>

NextMap ==
  \/ \E k \in MapKeySet, v \in ValSet : MapSet(k, v)
  \/ \E k \in MapKeySet : MapDelete(k)

SpecMap == Init /\ [][NextMap]_vars

\* SpecCount: the tree next to the counts of calls.  everSet holds the keys
\* ever passed to Set, nIns counts the Set calls that stored a new key, nDel
\* the Delete calls that returned true.
CountSet(k) ==
  /\ nIns < MaxIns
  /\ \E v \in TreeVals : SetStep(k, v)
  /\ everSet' = everSet \cup {k}
  /\ nIns' = IF Has(T, k) THEN nIns ELSE nIns + 1
  /\ UNCHANGED <<model, nDel, aux>>

CountDelete(k) ==
  /\ DeleteStep(k)
  /\ nDel' = IF last'.ret THEN nDel + 1 ELSE nDel
  /\ UNCHANGED <<model, everSet, nIns, aux>>

NextCount ==
  \/ \E k \in CountKeySet : CountSet(k)
  \/ \E k \in CountKeySet : CountDelete(k)

SpecCount == Init /\ [][NextCount]_vars

\* SpecRound: a Set that stores a new key remembers what Len() and Pairs()
\* returned before it; the Delete of that key, when it is the next call,
\* marks the round trip done; any other call forgets it.
RoundSet(k, v) ==
  /\ SetStep(k, v)
  /\ snap' = IF Has(T, k) \/ fault' THEN NoSnap
             ELSE [key |-> k, len |-> LenT(T), pairs |-> Pairs(T), done |-> FALSE]
  /\ UNCHANGED exceptSnap

RoundDelete(k) ==
  /\ DeleteStep(k)
  /\ snap' = IF snap.key = k /\ ~snap.done THEN [snap EXCEPT !.done = TRUE] ELSE NoSnap
  /\ UNCHANGED exceptSnap

NextRound ==
  \/ \E k \in MapKeySet, v \in RoundVals : RoundSet(k, v)
  \/ \E k \in MapKeySet : RoundDelete(k)

SpecRound == Init /\ [][NextRound]_vars

\* SpecIter: the tree and one sequence value.  The consumer does not touch
\* the tree while the closure runs; Set and Delete between two runs leave the
\* sequence value usable and start a new record.
MakeSeqOp(kind) ==
  /\ ~fault
  /\ it.phase # "yield"
  /\ it' = makeSeq(kind)
  /\ log' = NoLog
  /\ UNCHANGED <<tree, last, exceptIter>>

betweenRuns(s) == IF s.phase = "none" THEN s ELSE [s EXCEPT !.phase = "made"]

IterSet(k, v) ==
  /\ it.phase # "yield"
  /\ SetStep(k, v)
  /\ it' = betweenRuns(it)
  /\ log' = [NoLog EXCEPT !.mutated = (it.phase # "none")]
  /\ UNCHANGED exceptIter

IterDelete(k) ==
  /\ it.phase # "yield"
  /\ DeleteStep(k)
  /\ it' = betweenRuns(it)
  /\ log' = [NoLog EXCEPT !.mutated = (it.phase # "none")]
  /\ UNCHANGED exceptIter

\* the argument of the call of yield traversal s is suspended in
handed(t, s) == IF s.phase = "yield" THEN <<yielded(t, s.current, s.kind)>> ELSE <<>>

\* for x := range seq: the closure is called
StartOp ==
  /\ ~fault
  /\ it.phase \in {"made", "done", "stopped"}
  /\ log.runs < MaxRuns
  /\ \E n \in {iterStart(T, it)} :
       /\ it' = n
       /\ log' = [log EXCEPT !.seen = handed(T, n), !.stopAt = 0, !.runs = @ + 1]
  /\ UNCHANGED <<tree, last, exceptIter>>

\* the loop body ends: yield returns true
ContinueOp ==
  /\ it.phase = "yield"
  /\ \E n \in {iterResume(T, it)} :
       /\ it' = n
       /\ log' = [log EXCEPT !.seen = @ \o handed(T, n)]
  /\ UNCHANGED <<tree, last, exceptIter>>

\* the loop body breaks: yield returns false
StopOp ==
  /\ it.phase = "yield"
  /\ it' = iterReturn(it)
  /\ log' = [log EXCEPT !.stopAt = Len(log.seen)]
  /\ UNCHANGED <<tree, last, exceptIter>>

NextIter ==
  \/ \E kind \in SeqKinds : MakeSeqOp(kind)
  \/ \E k \in IterKeySet, v \in IterVals : IterSet(k, v)
  \/ \E k \in IterKeySet : IterDelete(k)
  \/ StartOp
  \/ ContinueOp
  \/ StopOp

SpecIter == Init /\ [][NextIter]_vars

\* SpecIterMut: the consumer calls Set and Delete inside the loop body, while
\* the closure is suspended in yield.  The traversal's stack and current keep
\* pointing at the nodes they held, unlinked ones included; a Set that stores
\* a new key needs one of the MutCells cells to be free.  Under mutation the
\* stack can grow without limit; a step that would make it longer than
\* MaxStack is left out.
used(t) == {n \in NodeIds : t.nodes[n].key # 0}

MutSet(k) ==
  /\ ~fault
  /\ Has(T, k) \/ Cardinality(used(T)) < MutCells
  /\ \E v \in TreeVals : \E r \in {CanonHeld(SetT(T, k, v), it)} :
       /\ nodes' = r[1].nodes
       /\ root' = r[1].root
       /\ size' = r[1].size
       /\ fault' = r[1].fault
       /\ it' = r[2]
  /\ last' = [op |-> "Set", key |-> k, ret |-> FALSE]
  /\ UNCHANGED <<log, exceptIter>>

MutDelete(k) ==
  /\ ~fault
  /\ \E d \in {Delete(T, k)} : \E r \in {CanonHeld(d[1], it)} :
       /\ nodes' = r[1].nodes
       /\ root' = r[1].root
       /\ size' = r[1].size
       /\ fault' = r[1].fault
       /\ it' = r[2]
       /\ last' = [op |-> "Delete", key |-> k, ret |-> d[2]]
  /\ UNCHANGED <<log, exceptIter>>

\* a step of the traversal: its locals become s; the cells it let go of are
\* reclaimed
traversalStep(s) ==
  /\ Len(s.stack) <= MaxStack
  /\ \E r \in {CanonHeld(T, s)} :
       /\ nodes' = r[1].nodes
       /\ root' = r[1].root
       /\ size' = r[1].size
       /\ fault' = r[1].fault
       /\ it' = r[2]
  /\ UNCHANGED <<last, log, exceptIter>>

\* for x := range t.KeySeq() (or ValueSeq, PairSeq): the loop is entered
MutStart(kind) ==
  /\ ~fault
  /\ it.phase \notin {"yield", "panic"}
  /\ traversalStep(iterStart(T, makeSeq(kind)))

MutContinue ==
  /\ ~fault
  /\ it.phase = "yield"
  /\ traversalStep(iterResume(T, it))

MutStop ==
  /\ ~fault
  /\ it.phase = "yield"
  /\ traversalStep(iterReturn(it))

NextIterMut ==
  \/ \E k \in MutKeySet : MutSet(k)
  \/ \E k \in MutKeySet : MutDelete(k)
  \/ \E kind \in SeqKinds : MutStart(kind)
  \/ MutContinue
  \/ MutStop

SpecIterMut == Init /\ [][NextIterMut]_vars

\* SpecSkip: a skip list built with cmp.Compare or with the reversed
\* comparator (the list of Init is NewOrderedSkipList()); every level randomLevel
\* can return is tried at each insertion; Range, RangeFrom and RangeBetween
\* are called with every visitor that returns false on its stop-th call.
NewSkipListOp(dir) ==
  /\ sl' = NewSkipList(dir)
  /\ stored' = {}
  /\ vis' = NoVis
  /\ UNCHANGED exceptSkip

SkipSet(k, newLevel) ==
  /\ \E v \in TreeVals : sl' = canonSkip(slSet(sl, k, v, newLevel))
  /\ stored' = stored \cup {k}
  /\ vis' = NoVis
  /\ UNCHANGED exceptSkip

SkipDelete(k) ==
  /\ \E r \in {slDelete(sl, k)} :
       /\ sl' = canonSkip(r[1])
       /\ vis' = [NoVis EXCEPT !.fn = IF r[2] THEN "Deleted" ELSE "none"]
  /\ stored' = stored \ {k}
  /\ UNCHANGED exceptSkip

RangeOp(stop) ==
  /\ vis' = [fn |-> "Range", a |-> 0, b |-> 0, stop |-> stop, out |-> slRange(sl, stop)]
  /\ UNCHANGED <<sl, stored, exceptSkip>>

RangeFromOp(a, stop) ==
  /\ vis' = [fn |-> "RangeFrom", a |-> a, b |-> 0, stop |-> stop, out |-> slRangeFrom(sl, a, stop)]
  /\ UNCHANGED <<sl, stored, exceptSkip>>

RangeBetweenOp(a, b, stop) ==
  /\ vis' = [fn |-> "RangeBetween", a |-> a, b |-> b, stop |-> stop,
             out |-> slRangeBetween(sl, a, b, stop)]
  /\ UNCHANGED <<sl, stored, exceptSkip>>

NextSkip ==
  \/ \E dir \in {1, -1} : NewSkipListOp(dir)
  \/ \E k \in SkipKeySet, newLevel \in randomLevel : SkipSet(k, newLevel)
  \/ \E k \in SkipKeySet : SkipDelete(k)
  \/ \E stop \in 0..SkipKeys : RangeOp(stop)
  \/ \E a \in SkipKeySet, stop \in 0..SkipKeys : RangeFromOp(a, stop)
  \/ \E a, b \in SkipKeySet, stop \in 0..SkipKeys : RangeBetweenOp(a, b, stop)

SpecSkip == Init /\ [][NextSkip]_vars

\* SpecHeight: the tree alone, all keys of HeightKeySet
HeightSet(k) == \E v \in TreeVals : SetStep(k, v) /\ UNCHANGED <<calls, aux>>

HeightDelete(k) == DeleteStep(k) /\ UNCHANGED <<calls, aux>>

NextHeight ==
  \/ \E k \in HeightKeySet : HeightSet(k)
  \/ \E k \in HeightKeySet : HeightDelete(k)

SpecHeight == Init /\ [][NextHeight]_vars

\* SpecRef: the tree and a caller that keeps the pointer GetMutable returned
\* and writes through it.  Set and Delete leave the pointer with the node it
\* addresses.
RefSet(k, v) ==
  /\ ~fault
  /\ \E r \in {SetT(T, k, v)} :
       /\ \E c \in {Canon(r)} :
            /\ nodes' = c.nodes
            /\ root' = c.root
            /\ size' = c.size
            /\ fault' = c.fault
       /\ ref' = [ref EXCEPT !.node = canonId(r, @)]
  /\ last' = [op |-> "Set", key |-> k, ret |-> FALSE]
  /\ UNCHANGED exceptRef

RefDelete(k) ==
  /\ ~fault
  /\ \E r \in {Delete(T, k)} :
       /\ \E c \in {Canon(r[1])} :
            /\ nodes' = c.nodes
            /\ root' = c.root
            /\ size' = c.size
            /\ fault' = c.fault
       /\ ref' = [ref EXCEPT !.node = canonId(r[1], @), !.gone = @ \/ (k = ref.key /\ r[2])]
       /\ last' = [op |-> "Delete", key |-> k, ret |-> r[2]]
  /\ UNCHANGED exceptRef

\* ptr, ok := t.GetMutable(k)
GetMutableOp(k) ==
  /\ ~fault
  /\ \E r \in {GetMutable(T, k)} :
       /\ ref' = IF r[2] THEN [node |-> r[1], key |-> k, gone |-> FALSE] ELSE NoRef
       /\ last' = [op |-> "GetMutable", key |-> k, ret |-> r[2]]
  /\ UNCHANGED <<tree, exceptRef>>

\* if ok { *ptr = v }
WriteOp(v) ==
  /\ ~fault
  /\ ref.node # Nil
  /\ \E r \in {store(T, ref.node, v)} :
       /\ nodes' = r.nodes
       /\ root' = r.root
       /\ size' = r.size
       /\ fault' = r.fault
  /\ last' = [op |-> "Write", key |-> ref.key, ret |-> TRUE, val |-> v]
  /\ UNCHANGED <<ref, exceptRef>>

NextRef ==
  \/ \E k \in RefKeySet, v \in ValSet : RefSet(k, v)
  \/ \E k \in RefKeySet : RefDelete(k)
  \/ \E k \in RefKeySet : GetMutableOp(k)
  \/ \E v \in ValSet : WriteOp(v)

SpecRef == Init /\ [][NextRef]_vars

\* SpecOmitted: the RedBlackTree of container/ordered_map/red_black_tree.go,
\* whose Set is the one above and whose deleteNode has no statement.  size
\* goes down without limit; nDel counts the Delete calls that returned true
\* and stops them at OmitDeletes.
OmittedSet(k) == \E v \in TreeVals : SetStep(k, v) /\ UNCHANGED <<calls, aux>>

OmittedDelete(k) ==
  /\ ~fault
  /\ nDel < OmitDeletes
  /\ \E r \in {DeleteOmitted(T, k)} : \E c \in {Canon(r[1])} :
        /\ nodes' = c.nodes
        /\ root' = c.root
        /\ size' = c.size
        /\ fault' = c.fault
        /\ last' = [op |-> "Delete", key |-> k, ret |-> r[2]]
        /\ nDel' = IF r[2] THEN nDel + 1 ELSE nDel
  /\ UNCHANGED <<model, everSet, nIns, aux>>

NextOmitted ==
  \/ \E k \in OmitKeySet : OmittedSet(k)
  \/ \E k \in OmitKeySet : OmittedDelete(k)

SpecOmitted == Init /\ [][NextOmitted]_vars

\* SpecDel: the tree and, for each Delete of a stored key, the case of
\* deleteNode it ran into.  Each key is stored with a value of its own, so
\* that a copied value is told from the one it replaces.
DelVal(k) == k

DelSet(k) ==
  /\ SetStep(k, DelVal(k))
  /\ del' = NoDel
  /\ UNCHANGED exceptDel

DelDelete(k) ==
  /\ DeleteStep(k)
  /\ del' = IF k \in Stored(T)
            THEN [valid |-> Inv1to5(T),
                  ycolor |-> nodes[unlinked(T, k)].color,
                  xnil |-> replacement(T, unlinked(T, k)) = Nil,
                  two |-> unlinked(T, k) # findNode(T, root, k)]
            ELSE NoDel
  /\ UNCHANGED exceptDel

NextDel ==
  \/ \E k \in KeySet : DelSet(k)
  \/ \E k \in KeySet : DelDelete(k)

SpecDel == Init /\ [][NextDel]_vars

\* SpecLinks: the tree alone, the keys of SetKeySet: the smallest key set
\* with which a rotation moves a subtree that is not empty
NextLinks ==
  \/ \E k \in SetKeySet : HeightSet(k)
  \/ \E k \in SetKeySet : HeightDelete(k)

SpecLinks == Init /\ [][NextLinks]_vars

\* SpecLoops: the tree and the iteration counts of the two fixup loops
LoopSet(k) ==
  /\ \E v \in TreeVals :
       /\ SetStep(k, v)
       /\ loops' = [ins |-> IF insertFixed(T, k) THEN insertIters(insertNode(T, k, v)) ELSE 0,
                    del |-> 0]
  /\ UNCHANGED exceptLoops

LoopDelete(k) ==
  /\ DeleteStep(k)
  /\ loops' = [ins |-> 0,
               del |-> IF k \in Stored(T) /\ deleteFixed(T, k)
                       THEN deleteIters(deleteFixStart(T, k)) ELSE 0]
  /\ UNCHANGED exceptLoops

NextLoops ==
  \/ \E k \in SetKeySet : LoopSet(k)
  \/ \E k \in SetKeySet : LoopDelete(k)

SpecLoops == Init /\ [][NextLoops]_vars

\* SpecSetOnly: a tree that is only ever inserted into
OnlySet(k) == \E v \in TreeVals : SetStep(k, v) /\ UNCHANGED <<calls, aux>>

NextSetOnly == \E k \in SetKeySet : OnlySet(k)

SpecSetOnly == Init /\ [][NextSetOnly]_vars

\* ------------------------------------------------------------------ claims

\* C1: after every completed Set or Delete every path from the root to an
\* absent-child position passes through the same number of black nodes.
\* Violated: deleteNode skips fixDelete when the removed black node has no child.
C1_EqualBlackCount == ~fault => Cardinality(blackCounts(T, root)) = 1

\* C2: Keys() observed after each operation is strictly ascending: BST order
\* holds at every node and no key is stored twice.
C2_KeysAscending == StrictlyAscending(Keys(T)) /\ BSTOrder(T)

C2_Witness ==
  /\ last.op = "Delete" /\ last.ret /\ ~fault
  /\ Len(Keys(T)) >= 3
  /\ \E n \in Reachable(T) : nodes[n].left # Nil /\ nodes[n].right # Nil

\* C3: the tree refines the abstract map: Get(k) returns (v, true) exactly
\* when k was Set and not successfully Deleted since, v being the value of the
\* most recent Set(k, v), and not-found otherwise; Has(k) is Get's found flag.
C3_RefinesMap ==
  ~fault =>
    \A k \in KeySet :
      /\ Get(T, k) = (IF model[k] # 0 THEN <<model[k], TRUE>> ELSE <<ZeroV, FALSE>>)
      /\ Has(T, k) = (model[k] # 0)

\* a Delete that returned true, next to stored keys that hold different values
C3_Witness ==
  /\ ~fault /\ last.op = "Delete" /\ last.ret
  /\ Get(T, last.key) = <<ZeroV, FALSE>>
  /\ \E j, k \in MapKeySet : Get(T, j) = <<1, TRUE>> /\ Get(T, k) = <<MaxVal, TRUE>>

\* C4: every operation runs to completion: Delete never faults, fixDelete
\* never reads the colour or children of an absent sibling.
\* Violated: fixDelete reads w.color of a nil sibling w.
C4_NeverFaults == ~fault

\* C5: after every completed Set or Delete no red node has a red child.
C5_NoRedRed == ~fault => NoRedRed(T)

C5_Witness ==
  /\ ~fault /\ last.op = "Set" /\ size >= 4
  /\ \E n \in Reachable(T) : nodes[n].color = red /\ nodes[n].left # Nil

\* C6: after every completed Set or Delete the tree is empty or its root is black.
C6_RootBlack == ~fault => (root = Nil \/ nodes[root].color = black)

C6_Witness ==
  /\ ~fault /\ last.op = "Delete" /\ last.ret
  /\ root # Nil /\ nodes[root].color = black /\ size >= 3

\* C7: Len() equals the number of nodes reachable from root, hence the
\* length of Keys().
C7_SizeIsNodeCount ==
  ~fault => LenT(T) = Cardinality(Reachable(T)) /\ LenT(T) = Len(Keys(T))

C7_Witness == ~fault /\ last.op = "Delete" /\ last.ret /\ size = 2

\* C8 (as stated): Len() equals the number of distinct keys ever passed to Set
\* minus the number of Delete calls that returned true.
C8_DistinctKeysMinusDeletes == ~fault => LenT(T) = Cardinality(everSet) - nDel

\* C8 (amended): Len() equals the number of Set calls whose key was not stored
\* when they were called minus the number of Delete calls that returned true.
C8_InsertionsMinusDeletes == ~fault => LenT(T) = nIns - nDel

C8_Witness == ~fault /\ nDel >= 1 /\ nIns > Cardinality(everSet) /\ size >= 1

\* C9: Delete(k) on a tree that stores k returns true; afterwards Has(k) is
\* false, Len() is one less and every other key keeps its value.
\* Violated: Delete of a stored key can panic in fixDelete (see C4).
C9_DeleteStored ==
  [][\A k \in KeySet :
       (last'.op = "Delete" /\ last'.key = k /\ k \in Stored(T)) =>
         /\ ~fault'
         /\ last'.ret
         /\ ~Has(T', k)
         /\ LenT(T') = LenT(T) - 1
         /\ \A j \in KeySet \ {k} : Get(T', j) = Get(T, j)]_vars

\* C10: Delete(k) on a tree that does not store k returns false and leaves
\* the whole tree unchanged: root, shape, colours, keys, values and Len().
C10_DeleteAbsent ==
  [][\A k \in KeySet :
       (last'.op = "Delete" /\ last'.key = k /\ k \notin Stored(T)) =>
         /\ ~last'.ret
         /\ T' = T]_vars

C10_Witness == ~fault /\ last.op = "Delete" /\ ~last.ret /\ size >= 3

\* C11: Set(k, v) on a tree that stores k replaces only the value of k's
\* node: same size, same root, every cell equal but for that value, and
\* Get(k) then returns (v, true).  v is read from model', which MapSet sets
\* to the argument of the call.
C11_SetExisting ==
  [][\A k \in MapKeySet :
       (last'.op = "Set" /\ last'.key = k /\ k \in Stored(T)) =>
         /\ ~fault'
         /\ size' = size
         /\ root' = root
         /\ nodes' = [nodes EXCEPT ![findNode(T, root, k)].value = model'[k]]
         /\ Get(T', k) = <<model'[k], TRUE>>]_vars

\* a Set that inserts leaves the new node without a black child, so the key
\* of this Set was stored before the call
C11_Witness ==
  /\ ~fault /\ last.op = "Set" /\ model[last.key] = MaxVal
  /\ \E n \in Reachable(T) :
       /\ nodes[n].key = last.key
       /\ nodes[n].left # Nil /\ nodes[nodes[n].left].color = black
       /\ nodes[n].parent # Nil

\* C12: for a key k the tree does not store, Set(k, v) followed at once by
\* Delete(k) returns true and restores Len() and the whole Pairs() sequence
\* to what they were before the Set.
C12_RoundTrip ==
  snap.done =>
    /\ ~fault
    /\ last.ret
    /\ LenT(T) = snap.len
    /\ Pairs(T) = snap.pairs

C12_Witness ==
  /\ snap.done /\ ~fault /\ snap.len = MapKeys - 1
  /\ \E i, j \in DOMAIN snap.pairs : snap.pairs[i][2] # snap.pairs[j][2]
  /\ snap.pairs[1][1] < snap.key /\ snap.key < snap.pairs[snap.len][1]

\* C13: after any completed sequence of Set and Delete, Keys(), Values() and
\* Pairs() have one length, Keys() lists exactly the stored keys in ascending
\* order, Values()[i] is the value stored for Keys()[i], and
\* Pairs()[i] = (Keys()[i], Values()[i]).
C13_Aligned ==
  ~fault =>
    LET ks == Keys(T)
        vs == Values(T)
        ps == Pairs(T)
    IN /\ Len(vs) = Len(ks) /\ Len(ps) = Len(ks)
       /\ StrictlyAscending(ks)
       /\ {ks[i] : i \in DOMAIN ks} = {k \in KeySet : model[k] # 0}
       /\ \A i \in DOMAIN ks :
            /\ Get(T, ks[i]) = <<vs[i], TRUE>>
            /\ vs[i] = model[ks[i]]
            /\ ps[i] = <<ks[i], vs[i]>>

C13_Witness ==
  /\ ~fault /\ last.op = "Delete" /\ last.ret /\ size >= 3
  /\ Values(T)[1] # Values(T)[size]
  /\ nodes[root].left # Nil /\ nodes[root].right # Nil

\* C14: GetMutable(k) changes nothing; on a stored key it returns found and
\* a reference, on an absent key not-found and no reference.  A write of v
\* through the reference, made before any other call, changes the value of
\* k's node and nothing else: root, size and every other field of every cell
\* stay, and Get(k) then returns (v, true).
C14_GetMutable ==
  [][/\ \A k \in RefKeySet :
          (last'.op = "GetMutable" /\ last'.key = k) =>
            /\ T' = T
            /\ last'.ret = (k \in Stored(T))
            /\ (ref'.node # Nil) = (k \in Stored(T))
     /\ (last.op = "GetMutable" /\ last.ret /\ last'.op = "Write") =>
          /\ ~fault'
          /\ root' = root
          /\ size' = size
          /\ nodes' = [nodes EXCEPT ![findNode(T, root, last.key)].value = last'.val]
          /\ Get(T', last.key) = <<last'.val, TRUE>>]_vars

C14_Witness ==
  /\ ~fault /\ last.op = "Write" /\ size = RefKeys
  /\ ref.node # root /\ ref.node # Detached
  /\ last.val = MaxVal
  /\ \E k \in RefKeySet : Get(T, k) = <<1, TRUE>>

\* C15: after every completed Set or Delete the height h of the tree and
\* n = Len() satisfy h <= 2*log2(n+1), that is 2^h <= (n+1)^2.
C15_HeightBound == ~fault => pow2(height(T, root)) <= (size + 1) * (size + 1)

\* what Keys(), Values() or Pairs() returns, by the kind of the sequence
eager(t, kind) ==
  IF kind = "key" THEN Keys(t) ELSE IF kind = "value" THEN Values(t) ELSE Pairs(t)

isPrefix(p, q) == Len(p) <= Len(q) /\ p = SubSeq(q, 1, Len(p))

\* C16: on a tree not mutated during the traversal, every run of a sequence
\* value, the first and the later ones, hands its consumer a prefix of
\* Keys(), Values() or Pairs() while it runs, never panics, and when it has
\* run out it has handed over exactly that sequence, in Len() calls of yield.
C16_LazyEqualsEager ==
  /\ it.phase # "panic"
  /\ it.phase = "yield" => isPrefix(log.seen, eager(T, it.kind))
  /\ it.phase = "done" =>
       /\ log.seen = eager(T, it.kind)
       /\ Len(log.seen) = LenT(T)

C16_Witness ==
  /\ it.phase = "done" /\ log.runs = 2 /\ it.kind = "pair"
  /\ size = IterKeys
  /\ \E i, j \in DOMAIN log.seen : log.seen[i][2] # log.seen[j][2]

\* C17: when the consumer answers the i-th call of yield with false, the
\* traversal is over: yield has been called exactly i times, on the first
\* i elements of the ascending sequence, and it is not called again.
C17_EarlyStop ==
  log.stopAt # 0 =>
    /\ it.phase = "stopped"
    /\ Len(log.seen) = log.stopAt
    /\ isPrefix(log.seen, eager(T, it.kind))

C17_Witness ==
  /\ log.stopAt = 2 /\ size = IterKeys /\ it.phase = "stopped"
  /\ it.kind = "value" /\ log.seen[1] # log.seen[2]

\* C18: with Set and Delete called between the yields of a traversal, the
\* traversal never panics and its steps (the steps that are no call of Set
\* or Delete) leave root, size and every node reachable from root as they
\* are; each Set or Delete then gives, up to the addresses of the cells, the
\* tree and the result it gives on the same tree with no traversal holding
\* nodes.
C18_TraversalLeavesTree ==
  [][/\ it'.phase # "panic"
     /\ last' = last =>
          /\ root' = root /\ size' = size /\ fault' = fault
          /\ \A n \in Reachable(T) : nodes'[n] = nodes[n]
     /\ \A k \in MutKeySet :
          /\ (last' # last /\ last'.op = "Set" /\ last'.key = k) =>
               \E v \in TreeVals : Canon(T') = Canon(SetT(Canon(T), k, v))
          /\ (last' # last /\ last'.op = "Delete" /\ last'.key = k) =>
               /\ Canon(T') = Canon(Delete(Canon(T), k)[1])
               /\ last'.ret = Delete(Canon(T), k)[2]]_vars

\* suspended in yield on a node a Delete has unlinked, another one on the stack
C18_Witness ==
  /\ ~fault /\ it.phase = "yield" /\ last.op = "Delete" /\ last.ret
  /\ it.current \notin Reachable(T)
  /\ Len(it.stack) >= 1
  /\ size >= 1

\* the keys of S in ascending order of the comparator of direction dir
RECURSIVE ascending(_, _)
ascending(S, dir) ==
  IF S = {} THEN <<>>
  ELSE LET m == CHOOSE x \in S : \A y \in S : (x - y) * dir <= 0
       IN <<m>> \o ascending(S \ {m}, dir)

\* k lies between a and b, ends included, whichever of a and b comes first
between(k, a, b, dir) ==
  \/ (a - k) * dir <= 0 /\ (k - b) * dir <= 0
  \/ (b - k) * dir <= 0 /\ (k - a) * dir <= 0

\* C19: RangeBetween(a, b, fn) with fn always true calls fn on exactly the
\* stored keys between a and b under the comparator, ends included and a, b
\* in either order, each once, in ascending comparator order; whatever
\* levels the nodes were given.
C19_RangeBetween ==
  (vis.fn = "RangeBetween" /\ vis.stop = 0) =>
    vis.out = ascending({k \in stored : between(k, vis.a, vis.b, sl.dir)}, sl.dir)

\* bounds given in descending comparator order, both stored, a key strictly
\* between them and a key outside, under the reversed comparator, with a
\* node above level 0
C19_Witness ==
  /\ vis.fn = "RangeBetween" /\ vis.stop = 0 /\ sl.dir = -1
  /\ vis.a < vis.b /\ Len(vis.out) = 2 /\ sl.length = 3
  /\ sl.level >= 1

\* the keys the call recorded in vis visits when its visitor always returns true
fullVisit ==
  IF vis.fn = "Range" THEN slRange(sl, 0)
  ELSE IF vis.fn = "RangeFrom" THEN slRangeFrom(sl, vis.a, 0)
  ELSE slRangeBetween(sl, vis.a, vis.b, 0)

\* C20: for Range, RangeFrom and RangeBetween, a visitor that returns false
\* on its i-th call is called on exactly the first i keys of the sequence
\* the same call visits with a visitor that always returns true, and on no
\* key after them.
C20_EarlyStop ==
  (vis.fn \in {"Range", "RangeFrom", "RangeBetween"} /\ vis.stop # 0) =>
    vis.out = IF vis.stop <= Len(fullVisit) THEN SubSeq(fullVisit, 1, vis.stop) ELSE fullVisit

C20_Witness ==
  /\ vis.fn = "RangeFrom" /\ vis.stop = 2 /\ Len(vis.out) = 2
  /\ Len(fullVisit) = 3 /\ sl.level >= 1

\* C21: in container/ordered_map/red_black_tree.go, after Delete(k) has
\* returned true, Has(k) is false, k is not among Keys() and Len() equals
\* the number of nodes reachable from root.
\* Violated: deleteNode of that file has no statement, so the node stays.
C21_DeleteRemoves ==
  (~fault /\ last.op = "Delete" /\ last.ret) =>
    /\ ~Has(T, last.key)
    /\ last.key \notin Stored(T)
    /\ LenT(T) = Cardinality(Reachable(T))

\* C22: from a tree that satisfies invariants 1 to 5, a Delete whose
\* unlinked node is black and has no child returns without a panic and leaves
\* a tree in which all paths from the root to an absent position hold the
\* same number of black nodes.
\* Violated: deleteNode runs fixDelete only when the replacement x is present.
C22_BlackLeafRebalanced ==
  [][\A k \in KeySet :
       (/\ last'.op = "Delete" /\ last'.key = k /\ k \in Stored(T)
        /\ Inv1to5(T)
        /\ nodes[unlinked(T, k)].color = black
        /\ replacement(T, unlinked(T, k)) = Nil) =>
         /\ ~fault'
         /\ Cardinality(blackCounts(T', root')) = 1]_vars

\* C23: from a tree that satisfies invariants 1 to 5, a Delete whose
\* unlinked node is red returns true without a panic and leaves a tree with
\* a black root, no red node with a red child and one black count on all
\* paths, the same count as before.
C23_RedRemoved ==
  [][\A k \in KeySet :
       (/\ last'.op = "Delete" /\ last'.key = k /\ k \in Stored(T)
        /\ Inv1to5(T)
        /\ nodes[unlinked(T, k)].color = red) =>
         /\ ~fault' /\ last'.ret
         /\ root' # Nil /\ nodes'[root'].color = black
         /\ NoRedRed(T')
         /\ Cardinality(blackCounts(T', root')) = 1
         /\ blackCounts(T', root') = blackCounts(T, root)]_vars

\* the red node unlinked was the successor of a target with two children
C23_Witness ==
  /\ ~fault /\ last.op = "Delete" /\ last.ret
  /\ del.valid /\ del.ycolor = red /\ del.two
  /\ size >= 3

\* C24: in a run of Set calls alone, after each Set (none panics) the tree
\* has BST order, a black root, no red node with a red child, and one black
\* count on all paths from the root to an absent position.
C24_SetKeepsInvariants ==
  /\ ~fault
  /\ BSTOrder(T) /\ StrictlyAscending(Keys(T))
  /\ root = Nil \/ nodes[root].color = black
  /\ NoRedRed(T)
  /\ Cardinality(blackCounts(T, root)) = 1

\* all keys stored, a red node with two children below the root: the
\* red-uncle case has pushed the red colour upward
C24_Witness ==
  /\ last.op = "Set" /\ size = SetKeys
  /\ \E n \in Reachable(T) :
       nodes[n].color = red /\ nodes[n].left # Nil /\ nodes[n].right # Nil

\* C25: when Delete(k) finds its target z with two children, the node
\* unlinked is y, the leftmost node of z's right subtree, which has no left
\* child; before any fixup z is where it was, linked as it was and of the
\* colour it had, and holds y's key and value; y's right child, or nothing,
\* hangs where y hung, its parent field set to y's parent; y is no longer
\* reachable and no other node has changed.
C25_SuccessorSubstitution ==
  [][\A k \in KeySet :
       LET z == findNode(T, root, k)
           y == leftmost(T, nodes[z].right)
           yp == nodes[y].parent
           yr == nodes[y].right
           s == unlinkAndCopy(T, z)
       IN (/\ last'.op = "Delete" /\ last'.key = k /\ k \in Stored(T)
           /\ nodes[z].left # Nil /\ nodes[z].right # Nil) =>
            /\ unlinked(T, k) = y /\ y # z
            /\ nodes[y].left = Nil
            /\ y \notin Reachable(s)
            /\ s.root = root
            /\ s.nodes[z].color = nodes[z].color
            /\ s.nodes[z].parent = nodes[z].parent
            /\ s.nodes[z].left = nodes[z].left
            /\ s.nodes[z].right = (IF yp = z THEN yr ELSE nodes[z].right)
            /\ s.nodes[z].key = nodes[y].key
            /\ s.nodes[z].value = nodes[y].value
            /\ yp # z => s.nodes[yp].left = yr
            /\ yr # Nil => s.nodes[yr].parent = yp
            /\ \A n \in Reachable(T) \ {z, yp, yr} : s.nodes[n] = nodes[n]]_vars

\* the successor unlinked was black and had a right child to take its place
C25_Witness ==
  /\ ~fault /\ last.op = "Delete" /\ last.ret
  /\ del.two /\ del.ycolor = black /\ ~del.xnil
  /\ size >= 3

\* C26: after every completed Set or Delete the nodes reachable from root
\* form a tree with consistent back-references: the root's parent is absent
\* and no node references the root as a child; every other reachable node
\* is referenced by one reachable node, through one of its two child fields,
\* and its parent field references that node; no node is met twice by the
\* in-order walk.
C26_ParentLinks ==
  ~fault =>
    /\ root # Nil => nodes[root].parent = Nil /\ owners(T, root) = {}
    /\ \A n \in Reachable(T) \ {root} :
         /\ owners(T, n) = {nodes[n].parent}
         /\ nodes[nodes[n].parent].left # nodes[nodes[n].parent].right
    /\ Len(inOrderNodes(T, root)) = Cardinality(Reachable(T))

\* after a Delete that returned true: five nodes left, one of them three
\* links below the root
C26_Witness ==
  /\ ~fault /\ last.op = "Delete" /\ last.ret /\ size = SetKeys - 1
  /\ \E n \in Reachable(T) :
       /\ nodes[n].parent # Nil /\ nodes[nodes[n].parent].parent # Nil
       /\ nodes[nodes[nodes[n].parent].parent].parent = root

\* C27: from a tree that satisfies invariants 1 to 5, whenever deleteNode
\* calls fixDelete (the unlinked node y black, its replacement x present), x
\* is red and is not the root's replacement in black: the loop condition of
\* fixDelete is false at once, fixDelete does nothing but colour x black,
\* and the tree Delete returns satisfies invariants 1 to 5.
C27_FixupOnlyRecolours ==
  [][\A k \in KeySet :
       LET z == findNode(T, root, k)
           y == unlinked(T, k)
           x == replacement(T, y)
           s == unlinkAndCopy(T, z)
       IN (/\ last'.op = "Delete" /\ last'.key = k /\ k \in Stored(T)
           /\ Inv1to5(T)
           /\ nodes[y].color = black /\ x # Nil) =>
            /\ s.nodes[x].color = red
            /\ fixDelete(s, x) = SetF(s, x, "color", black)
            /\ ~fault' /\ last'.ret
            /\ T' = Canon(decSize(SetF(s, x, "color", black)))
            /\ Inv1to5(T')]_vars

\* the target itself was unlinked: black, with one child, below the root
C27_Witness ==
  /\ ~fault /\ last.op = "Delete" /\ last.ret
  /\ del.valid /\ del.ycolor = black /\ ~del.xnil /\ ~del.two
  /\ size >= 3

\* C28: a write through the reference GetMutable(k) returned, made after
\* any Set and Delete calls, leaves the value Get returns for every other
\* key as it was, and, when no Delete has removed k since, makes Get(k)
\* return the written value.
\* Violated: deleteNode moves the successor's key and value into the node of
\* the deleted key and unlinks the successor's node.
C28_ReferenceStaysBound ==
  [][last'.op = "Write" =>
       /\ \A j \in RefKeySet \ {ref.key} : Get(T', j) = Get(T, j)
       /\ ~ref.gone => Get(T', ref.key) = <<last'.val, TRUE>>]_vars

\* C29: a sequence value holds no node and no element while it is not
\* running; one created before Set or Delete calls and consumed after them
\* hands over the ascending contents the tree has when the consumption
\* starts: a prefix of them while it runs, all of them when it has run out.
C29_NothingMaterialized ==
  /\ it.phase \in {"made", "done", "stopped"} => it.stack = <<>> /\ it.current = Nil
  /\ log.mutated =>
       /\ it.phase = "made" => log.seen = <<>>
       /\ it.phase = "yield" => isPrefix(log.seen, eager(T, it.kind))
       /\ it.phase = "done" => log.seen = eager(T, it.kind)

\* consumed to the end after a Delete that removed a key and left two
C29_Witness ==
  /\ log.mutated /\ it.phase = "done" /\ it.kind = "pair"
  /\ last.op = "Delete" /\ last.ret /\ size = IterKeys - 1
  /\ Len(log.seen) = IterKeys - 1

====
